---- MODULE Spec2Model ----
(***************************************************************************)
(* A model of the bidirected adjacency array: the index arithmetic of      *)
(* src/src/index.rs, the counting-sort construction and the accessors of   *)
(* src/src/graph.rs, the comparison of src/src/compare.rs and the GFA1     *)
(* reader and writer of src/src/io/gfa1.rs.                                *)
(*                                                                         *)
(* Vectors (TaggedVec) are functions over 0..len-1, as in the source.      *)
(* Index integers keep the width of the index type: arithmetic that does   *)
(* not fit panics in a build with overflow checks and wraps in one         *)
(* without; the variable `checked` says which build runs.                  *)
(***************************************************************************)
EXTENDS Integers, Sequences, FiniteSets, TLC

VARIABLES nodes, edges, checked, g, other, text, result, stage

vars == <<nodes, edges, checked, g, other, text, result, stage>>

----------------------------------------------------------------------------
(* Bounds of the model. *)

MaxNodes == 2

MaxEdges == 2

(* The width of the index integer: the graph tests instantiate u8. *)
IndexBits == 8

Modulus == 2 ^ IndexBits

MaxIndex == Modulus - 1

(* The least counts that no longer fit the index type: with WideEdges edges *)
(* there are Modulus directed edges, and node WideNodes - 1 has the        *)
(* directed nodes Modulus and Modulus + 1.                                 *)
WideEdges == Modulus \div 2

WideNodes == Modulus \div 2 + 1

(* NodeData and EdgeData are type parameters of the graph: new moves the   *)
(* payloads and never reads them, so the construction specification gives  *)
(* every position a payload of its own.                                    *)
NodePayload(i) == <<"node", i>>

EdgePayload(i) == <<"edge", i>>

----------------------------------------------------------------------------
(* A variable that a specification does not use. *)
Idle == "idle"

(* Vectors: functions over 0..len-1. *)

VecLen(v) == Cardinality(DOMAIN v)

EmptyVec == <<>>

Push(v, x) == [k \in 0..VecLen(v) |-> IF k < VecLen(v) THEN v[k] ELSE x]

Repeat(x, n) == [k \in 0..(n - 1) |-> x]

Vectors(S, n) == [0..(n - 1) -> S]

----------------------------------------------------------------------------
(* index.rs *)

Fits(x) == x >= 0 /\ x <= MaxIndex

Wrap(x) == x % Modulus

from_bidirected(bidirected, forward) ==
    LET base == Wrap(bidirected * 2)
    IN  IF forward THEN base ELSE Wrap(base + 1)

into_bidirected(d) == d \div 2

(* invert as a step to the next index. *)
invert_Successor(d) == Wrap(d + 1)

invert(d) == IF d % 2 = 0 THEN d + 1 ELSE d - 1

is_forward(d) == d % 2 = 0

is_reverse(d) == ~is_forward(d)

increment(x) == Wrap(x + 1)

decrement(x) == Wrap(x - 1)

add(x, y) == Wrap(x + y)

(* OptionalEdgeIndex::new_none *)
None == -1

----------------------------------------------------------------------------
(* graph.rs: BidirectedAdjacencyArray::new, one operator per pass. *)

Panic(st, why) == [st EXCEPT !.status = "panic", !.panic = why]

(* Lines 101-104: the offset table, zeroed, and the loop about to start. *)
Allocate(ns) ==
    [status |-> "count", i |-> 0, panic |-> "", wrapped |-> FALSE,
     node_array |-> Repeat(0, VecLen(ns) * 2 + 1),
     edge_array |-> EmptyVec,
     edge_data_keys |-> EmptyVec,
     edge_data |-> EmptyVec,
     node_data |-> ns]

(* The counting loop without its second increment. *)
CountEdge_ForwardOnly(st, edge, chk) ==
    LET F   == from_bidirected(edge.from, edge.from_forward)
        na1 == [st.node_array EXCEPT ![F] = increment(@)]
    IN  IF F \notin DOMAIN st.node_array THEN Panic(st, "bounds")
        ELSE [st EXCEPT !.node_array = na1, !.i = @ + 1]

(* Lines 107-114: one iteration of the counting loop. *)
CountEdge(st, edge, chk) ==
    LET F   == from_bidirected(edge.from, edge.from_forward)
        R   == invert(from_bidirected(edge.to, edge.to_forward))
        na1 == [st.node_array EXCEPT ![F] = increment(@)]
        na2 == [na1 EXCEPT ![R] = increment(@)]
        w   == \/ ~Fits(edge.from * 2) \/ ~Fits(edge.to * 2)
               \/ ~Fits(st.node_array[F] + 1) \/ ~Fits(na1[R] + 1)
    IN  IF chk /\ ~Fits(edge.from * 2) THEN Panic(st, "overflow")
        ELSE IF F \notin DOMAIN st.node_array THEN Panic(st, "bounds")
        ELSE IF chk /\ ~Fits(st.node_array[F] + 1) THEN Panic(st, "overflow")
        ELSE IF chk /\ ~Fits(edge.to * 2) THEN Panic(st, "overflow")
        ELSE IF R \notin DOMAIN st.node_array THEN Panic(st, "bounds")
        ELSE IF chk /\ ~Fits(na1[R] + 1) THEN Panic(st, "overflow")
        ELSE [st EXCEPT !.node_array = na2, !.i = @ + 1,
                        !.wrapped = @ \/ w]

(* The exact sum of entries lo..hi, by halves to keep the recursion flat. *)
RECURSIVE RangeSum(_, _, _)
RangeSum(na, lo, hi) ==
    IF lo > hi THEN 0
    ELSE IF lo = hi THEN na[lo]
    ELSE LET mid == (lo + hi) \div 2
         IN  RangeSum(na, lo, mid) + RangeSum(na, mid + 1, hi)

(* Lines 117-142: the prefix sum, its assertion, and the edge tables. The *)
(* fold adds entry after entry with add, so its running sum at d is the   *)
(* exact sum of entries 0..d brought into the index type, and an add      *)
(* leaves the type as soon as an exact sum does.                          *)
PrefixSum(st, chk) ==
    LET na   == st.node_array
        last == VecLen(na) - 1
        w    == ~Fits(RangeSum(na, 0, last))
        sums == [d \in 0..last |-> add(0, RangeSum(na, 0, d))]
        directed_edge_count == sums[last]
    IN  IF chk /\ w THEN Panic(st, "overflow")
        ELSE IF directed_edge_count # sums[last] THEN Panic(st, "assert")
        ELSE [st EXCEPT !.status = "place", !.i = 0,
                        !.node_array = sums,
                        !.edge_array = Repeat(0, directed_edge_count),
                        !.edge_data_keys =
                            Repeat([inverse |-> 0, data_index |-> None],
                                   directed_edge_count),
                        !.edge_data = EmptyVec,
                        !.wrapped = @ \/ w]

(* Lines 150-153 and 157-160: claim the last free slot of a range. *)
ClaimSlot(na, d) == [na EXCEPT ![d] = decrement(@)]

(* The reverse directed edge led back to the from side itself. *)
WriteSuccessors_ReverseNotInverted(ea, forward, reverse, to_forward, to_reverse) ==
    LET ea1 == [ea EXCEPT ![forward] = to_forward]
    IN  [ea1 EXCEPT ![reverse] = invert(to_reverse)]

(* Lines 162-163: the destinations of the two directed edges. *)
WriteSuccessors(ea, forward, reverse, to_forward, to_reverse) ==
    LET ea1 == [ea EXCEPT ![forward] = to_forward]
    IN  [ea1 EXCEPT ![reverse] = to_reverse]

(* The reverse slot recorded as its own inverse. *)
WriteKeys_SelfInverse(keys, edge_index_forward, edge_index_reverse, edge_index) ==
    LET k1 == [keys EXCEPT ![edge_index_forward] =
                  [inverse |-> edge_index_reverse, data_index |-> edge_index]]
    IN  [k1 EXCEPT ![edge_index_reverse] =
            [inverse |-> edge_index_reverse, data_index |-> None]]

(* The reverse slot given a back-reference of its own. *)
WriteKeys_BothOwn(keys, edge_index_forward, edge_index_reverse, edge_index) ==
    LET k1 == [keys EXCEPT ![edge_index_forward] =
                  [inverse |-> edge_index_reverse, data_index |-> edge_index]]
    IN  [k1 EXCEPT ![edge_index_reverse] =
            [inverse |-> edge_index_forward, data_index |-> edge_index]]

(* Lines 165-172: the key records of the two directed edges. *)
WriteKeys(keys, edge_index_forward, edge_index_reverse, edge_index) ==
    LET k1 == [keys EXCEPT ![edge_index_forward] =
                  [inverse |-> edge_index_reverse, data_index |-> edge_index]]
    IN  [k1 EXCEPT ![edge_index_reverse] =
            [inverse |-> edge_index_forward, data_index |-> None]]

(* Lines 146-180: one iteration of the placement loop. *)
PlaceEdge(st, edge_index, edge, chk) ==
    LET from_directed_forward == from_bidirected(edge.from, edge.from_forward)
        to_directed_forward   == from_bidirected(edge.to, edge.to_forward)
        na1 == ClaimSlot(st.node_array, from_directed_forward)
        edge_index_forward == na1[from_directed_forward]
        from_directed_reverse == invert(to_directed_forward)
        to_directed_reverse   == invert(from_directed_forward)
        na2 == ClaimSlot(na1, from_directed_reverse)
        edge_index_reverse == na2[from_directed_reverse]
        data_index == VecLen(st.edge_data)
        w   == \/ ~Fits(edge.from * 2) \/ ~Fits(edge.to * 2)
               \/ ~Fits(st.node_array[from_directed_forward] - 1)
               \/ ~Fits(na1[from_directed_reverse] - 1)
    IN  IF chk /\ (~Fits(edge.from * 2) \/ ~Fits(edge.to * 2))
        THEN Panic(st, "overflow")
        ELSE IF from_directed_forward \notin DOMAIN st.node_array
        THEN Panic(st, "bounds")
        ELSE IF chk /\ ~Fits(st.node_array[from_directed_forward] - 1)
        THEN Panic(st, "overflow")
        ELSE IF from_directed_reverse \notin DOMAIN st.node_array
        THEN Panic(st, "bounds")
        ELSE IF chk /\ ~Fits(na1[from_directed_reverse] - 1)
        THEN Panic(st, "overflow")
        ELSE IF edge_index_forward \notin DOMAIN st.edge_array
                \/ edge_index_reverse \notin DOMAIN st.edge_array
        THEN Panic(st, "bounds")
        ELSE IF edge_index # data_index THEN Panic(st, "assert")
        ELSE [st EXCEPT !.node_array = na2,
                        !.edge_array =
                            WriteSuccessors(@, edge_index_forward,
                                            edge_index_reverse,
                                            to_directed_forward,
                                            to_directed_reverse),
                        !.edge_data_keys =
                            WriteKeys(@, edge_index_forward,
                                      edge_index_reverse, edge_index),
                        !.edge_data = Push(@, [forward |-> edge_index_forward,
                                               reverse |-> edge_index_reverse,
                                               data |-> edge.data]),
                        !.i = @ + 1,
                        !.wrapped = @ \/ w]

(* Lines 182-188: the tables become the graph. *)
Return(st) == [st EXCEPT !.status = "done"]

(* One step of new, whatever it is. *)
StepNew(st, es, chk) ==
    IF st.status = "count"
    THEN IF st.i < VecLen(es) THEN CountEdge(st, es[st.i], chk)
         ELSE PrefixSum(st, chk)
    ELSE IF st.i < VecLen(es) THEN PlaceEdge(st, st.i, es[st.i], chk)
         ELSE Return(st)

RECURSIVE RunNew(_, _, _)
RunNew(st, es, chk) ==
    IF st.status \in {"done", "panic"} THEN st
    ELSE RunNew(StepNew(st, es, chk), es, chk)

(* Lines 97-189: new, run to its end. *)
new(ns, es, chk) == RunNew(Allocate(ns), es, chk)

----------------------------------------------------------------------------
(* graph.rs: the accessors of a constructed graph. *)

node_count(gr) == VecLen(gr.node_data)

edge_count(gr) == VecLen(gr.edge_data)

(* Lines 199-205: the indices in ascending order, as a sequence. *)
iter_nodes(gr) == [k \in 1..node_count(gr) |-> k - 1]

iter_edges(gr) == [k \in 1..edge_count(gr) |-> k - 1]

node_data(gr, node) == gr.node_data[node]

Min(a, b) == IF a <= b THEN a ELSE b

(* The iterator without its take(end). *)
iter_outgoing_edges_NoTake(gr, node) ==
    LET start == gr.node_array[node]
        taken == VecLen(gr.edge_array)
    IN  [k \in 1..(taken - start) |->
            [from |-> node, to |-> gr.edge_array[start + k - 1],
             index |-> start + k - 1]]

(* The successors read from the end of the range to its start. *)
iter_outgoing_edges_Reversed(gr, node) ==
    LET start == gr.node_array[node]
        end   == gr.node_array[add(node, 1)]
        taken == Min(end, VecLen(gr.edge_array))
    IN  [k \in 1..(taken - start) |->
            [from |-> node, to |-> gr.edge_array[taken - k],
             index |-> taken - k]]

(* Lines 207-222: edge_array.iter().take(end).skip(start), mapped. *)
iter_outgoing_edges(gr, node) ==
    LET start == gr.node_array[node]
        end   == gr.node_array[add(node, 1)]
        taken == Min(end, VecLen(gr.edge_array))
    IN  [k \in 1..(taken - start) |->
            [from |-> node, to |-> gr.edge_array[start + k - 1],
             index |-> start + k - 1]]

(* The view that reports every slot as the forward one. *)
directed_edge_data_AlwaysForward(gr, directed_edge) ==
    LET key == gr.edge_data_keys[directed_edge]
        inverse_key == gr.edge_data_keys[key.inverse]
        e == IF key.data_index # None THEN key.data_index
             ELSE inverse_key.data_index
    IN  [panic |-> FALSE, is_forward |-> TRUE, edge |-> e,
         data |-> gr.edge_data[e].data]

(* Lines 293-318: the payload of a directed edge, through its key or the *)
(* key of its inverse; `panic` is the fatal branch.                       *)
directed_edge_data(gr, directed_edge) ==
    LET key == gr.edge_data_keys[directed_edge]
        inverse_key == gr.edge_data_keys[key.inverse]
    IN  IF key.data_index # None
        THEN [panic |-> FALSE, is_forward |-> TRUE, edge |-> key.data_index,
              data |-> gr.edge_data[key.data_index].data]
        ELSE IF inverse_key.data_index = None
        THEN [panic |-> TRUE, is_forward |-> FALSE, edge |-> None,
              data |-> None]
        ELSE [panic |-> FALSE, is_forward |-> FALSE,
              edge |-> inverse_key.data_index,
              data |-> gr.edge_data[inverse_key.data_index].data]

(* Lines 320-333. *)
directed_edge_into_bidirected(gr, directed_edge) ==
    LET key == gr.edge_data_keys[directed_edge]
        inverse_key == gr.edge_data_keys[key.inverse]
    IN  IF key.data_index # None
        THEN [panic |-> FALSE, edge |-> key.data_index]
        ELSE IF inverse_key.data_index = None
        THEN [panic |-> TRUE, edge |-> None]
        ELSE [panic |-> FALSE, edge |-> inverse_key.data_index]

(* The closure without its self-loop test. *)
IncidentKeeps_All(gr, directed_edge) == TRUE

(* Lines 233-244: the filter_map closure of iter_incident_edges. *)
IncidentKeeps(gr, directed_edge) ==
    IF directed_edge.from = directed_edge.to
       \/ directed_edge.from = invert(directed_edge.to)
    THEN directed_edge_data(gr, directed_edge.index).is_forward
    ELSE TRUE

(* Lines 225-245. *)
iter_incident_edges(gr, node) ==
    LET forward_node == from_bidirected(node, TRUE)
        reverse_node == from_bidirected(node, FALSE)
        chain == iter_outgoing_edges(gr, forward_node)
                 \o iter_outgoing_edges(gr, reverse_node)
        kept  == SelectSeq(chain, LAMBDA de : IncidentKeeps(gr, de))
    IN  [k \in 1..Len(kept) |-> directed_edge_data(gr, kept[k].index).edge]

(* The general arm without the inversion of the reverse destination. *)
edge_NoInvert(gr, e) ==
    LET bidirected_edge_data == gr.edge_data[e]
        forward_to == gr.edge_array[bidirected_edge_data.forward]
        reverse_to == gr.edge_array[bidirected_edge_data.reverse]
        View(from, to, branch) ==
            [from |-> from, to |-> to,
             forward |-> bidirected_edge_data.forward,
             reverse |-> bidirected_edge_data.reverse,
             data |-> bidirected_edge_data.data,
             branch |-> branch]
    IN  IF forward_to = reverse_to
        THEN View(invert(forward_to), forward_to, "A")
        ELSE IF invert(forward_to) = reverse_to
        THEN View(forward_to, forward_to, "B")
        ELSE View(reverse_to, forward_to, "C")

(* The two self-loop tests in the other order. *)
edge_TestsSwapped(gr, e) ==
    LET bidirected_edge_data == gr.edge_data[e]
        forward_to == gr.edge_array[bidirected_edge_data.forward]
        reverse_to == gr.edge_array[bidirected_edge_data.reverse]
        View(from, to, branch) ==
            [from |-> from, to |-> to,
             forward |-> bidirected_edge_data.forward,
             reverse |-> bidirected_edge_data.reverse,
             data |-> bidirected_edge_data.data,
             branch |-> branch]
    IN  IF invert(forward_to) = reverse_to
        THEN View(invert(forward_to), forward_to, "A")
        ELSE IF forward_to = reverse_to
        THEN View(forward_to, forward_to, "B")
        ELSE View(invert(reverse_to), forward_to, "C")

(* Lines 251-291: the view of a bidirected edge; `branch` names the arm *)
(* of the if that built it: "A" the first, "B" the second, "C" the last. *)
edge(gr, e) ==
    LET bidirected_edge_data == gr.edge_data[e]
        forward_to == gr.edge_array[bidirected_edge_data.forward]
        reverse_to == gr.edge_array[bidirected_edge_data.reverse]
        View(from, to, branch) ==
            [from |-> from, to |-> to,
             forward |-> bidirected_edge_data.forward,
             reverse |-> bidirected_edge_data.reverse,
             data |-> bidirected_edge_data.data,
             branch |-> branch]
    IN  IF forward_to = reverse_to
        THEN View(invert(forward_to), forward_to, "A")
        ELSE IF invert(forward_to) = reverse_to
        THEN View(forward_to, forward_to, "B")
        ELSE View(invert(reverse_to), forward_to, "C")

(* Every accessor applied to every index of the graph. *)
Observe(gr) ==
    [node_count |-> node_count(gr),
     edge_count |-> edge_count(gr),
     iter_nodes |-> iter_nodes(gr),
     iter_edges |-> iter_edges(gr),
     node_array |-> gr.node_array,
     node_data |-> [n \in 0..(node_count(gr) - 1) |-> node_data(gr, n)],
     edge |-> [e \in 0..(edge_count(gr) - 1) |-> edge(gr, e)],
     outgoing |-> [d \in 0..(2 * node_count(gr) - 1) |->
                      iter_outgoing_edges(gr, d)],
     incident |-> [n \in 0..(node_count(gr) - 1) |->
                      iter_incident_edges(gr, n)],
     keys |-> gr.edge_data_keys,
     directed |-> [p \in DOMAIN gr.edge_array |-> directed_edge_data(gr, p)],
     into_bidirected |-> [p \in DOMAIN gr.edge_array |->
                             directed_edge_into_bidirected(gr, p)]]

----------------------------------------------------------------------------
(* compare.rs *)

Ok == [kind |-> "Ok", index |-> None]

Err(kind, index) == [kind |-> kind, index |-> index]

(* Lines 46-53: the scan of the nodes, from position k of iter_nodes. *)
RECURSIVE CompareNodes(_, _, _)
CompareNodes(a, b, k) ==
    IF k > Len(iter_nodes(a)) THEN Ok
    ELSE LET node_index == iter_nodes(a)[k]
         IN  IF node_data(a, node_index) # node_data(b, node_index)
             THEN Err("NodeDataMismatch", node_index)
             ELSE CompareNodes(a, b, k + 1)

(* The scan with the endpoint test before the payload test. *)
RECURSIVE CompareEdges_EndpointFirst(_, _, _)
CompareEdges_EndpointFirst(a, b, k) ==
    IF k > Len(iter_edges(a)) THEN Ok
    ELSE LET edge_index == iter_edges(a)[k]
             self_edge  == edge(a, edge_index)
             other_edge == edge(b, edge_index)
         IN  IF self_edge.from # other_edge.from
                \/ self_edge.to # other_edge.to
             THEN Err("EdgeEndpointMismatch", edge_index)
             ELSE IF self_edge.data # other_edge.data
             THEN Err("EdgeDataMismatch", edge_index)
             ELSE CompareEdges_EndpointFirst(a, b, k + 1)

(* Lines 55-66: the scan of the edges, from position k of iter_edges. *)
RECURSIVE CompareEdges(_, _, _)
CompareEdges(a, b, k) ==
    IF k > Len(iter_edges(a)) THEN Ok
    ELSE LET edge_index == iter_edges(a)[k]
             self_edge  == edge(a, edge_index)
             other_edge == edge(b, edge_index)
         IN  IF self_edge.data # other_edge.data
             THEN Err("EdgeDataMismatch", edge_index)
             ELSE IF self_edge.from # other_edge.from
                     \/ self_edge.to # other_edge.to
             THEN Err("EdgeEndpointMismatch", edge_index)
             ELSE CompareEdges(a, b, k + 1)

(* Lines 33-69. *)
compare(a, b) ==
    IF node_count(a) # node_count(b) THEN Err("NodeCountMismatch", None)
    ELSE IF edge_count(a) # edge_count(b) THEN Err("EdgeCountMismatch", None)
    ELSE IF CompareNodes(a, b, 1) # Ok THEN CompareNodes(a, b, 1)
    ELSE CompareEdges(a, b, 1)

----------------------------------------------------------------------------
(* io/gfa1.rs. A string is a sequence of characters, a text one string    *)
(* with its line feeds.                                                   *)

TAB == "\t"

LF == "\n"

CR == "\r"

(* char::is_whitespace, on the characters of the model. *)
Whitespace == {" ", TAB, LF, CR}

DigitChars == <<"0", "1", "2", "3", "4", "5", "6", "7", "8", "9">>

(* The largest u16. *)
U16Max == 65535

(* Display for u16. *)
RECURSIVE Decimal(_)
Decimal(n) ==
    IF n < 10 THEN <<DigitChars[n + 1]>>
    ELSE Decimal(n \div 10) \o <<DigitChars[(n % 10) + 1]>>

DigitValue(c) == CHOOSE v \in 0..9 : DigitChars[v + 1] = c

IsDigit(c) == \E v \in 0..9 : DigitChars[v + 1] = c

(* The value of a run of digits, or None once it passes U16Max. *)
RECURSIVE DigitsValue(_, _)
DigitsValue(chars, acc) ==
    IF chars = <<>> THEN acc
    ELSE IF acc * 10 + DigitValue(Head(chars)) > U16Max THEN None
    ELSE DigitsValue(Tail(chars), acc * 10 + DigitValue(Head(chars)))

(* str::parse::<u16>: an optional plus sign and at least one digit. *)
ParseU16(chars) ==
    LET digits == IF chars # <<>> /\ Head(chars) = "+" THEN Tail(chars)
                  ELSE chars
    IN  IF digits = <<>> \/ \E k \in 1..Len(digits) : ~IsDigit(digits[k])
        THEN None
        ELSE DigitsValue(digits, 0)

(* str::trim_end_matches(c). *)
RECURSIVE TrimEndMatches(_, _)
TrimEndMatches(chars, c) ==
    IF chars # <<>> /\ chars[Len(chars)] = c
    THEN TrimEndMatches(SubSeq(chars, 1, Len(chars) - 1), c)
    ELSE chars

(* str::trim. *)
Trim(chars) ==
    LET kept == {k \in 1..Len(chars) : chars[k] \notin Whitespace}
    IN  IF kept = {} THEN <<>>
        ELSE SubSeq(chars, CHOOSE k \in kept : \A j \in kept : k <= j,
                           CHOOSE k \in kept : \A j \in kept : j <= k)

(* str::split(sep): the pieces between the separators, at least one. *)
RECURSIVE Split(_, _)
Split(chars, sep) ==
    LET at == {k \in 1..Len(chars) : chars[k] = sep}
    IN  IF at = {} THEN <<chars>>
        ELSE LET k == CHOOSE x \in at : \A y \in at : x <= y
             IN  <<SubSeq(chars, 1, k - 1)>>
                 \o Split(SubSeq(chars, k + 1, Len(chars)), sep)

(* BufRead::lines: a line ends at a line feed, which is dropped with a   *)
(* carriage return before it; what follows the last line feed is a line  *)
(* unless it is empty.                                                   *)
Lines(chars) ==
    LET pieces == Split(chars, LF)
        n == Len(pieces)
        ended == [k \in 1..(n - 1) |->
                     IF pieces[k] # <<>> /\ pieces[k][Len(pieces[k])] = CR
                     THEN SubSeq(pieces[k], 1, Len(pieces[k]) - 1)
                     ELSE pieces[k]]
    IN  IF pieces[n] = <<>> THEN ended ELSE ended \o <<pieces[n]>>

(* Vec::get on the fields of a line. *)
Has(fields, k) == k + 1 <= Len(fields)

Get(fields, k) == fields[k + 1]

ReadOk == [kind |-> "Ok", arg |-> <<>>]

ReadErr(kind, arg) == [kind |-> kind, arg |-> arg]

(* Lines 52-55: the state of read_gfa1 before its first line. *)
ReadStart ==
    [node_name_to_node |-> <<>>, nodes |-> EmptyVec, edges |-> EmptyVec,
     is_header_allowed |-> TRUE, err |-> ReadOk, warnings |-> 0]

(* An insertion that keeps the earlier entry of a name. *)
MapInsert_KeepFirst(map, name, node) ==
    [k \in DOMAIN map \cup {name} |-> IF k \in DOMAIN map THEN map[k] ELSE node]

(* HashMap::insert: a later name replaces an earlier one. *)
MapInsert(map, name, node) ==
    [k \in DOMAIN map \cup {name} |-> IF k = name THEN node ELSE map[k]]

(* The L line with its length tested before its names are looked up. *)
ReadLLine_LengthFirst(rs, line) ==
    LET Sign(k) == Get(line, k)
        overlap_str == IF Has(line, 5) THEN Get(line, 5) ELSE <<"0", "M">>
        parsed == ParseU16(TrimEndMatches(overlap_str, "M"))
        overlap == IF parsed = None THEN 0 ELSE parsed
    IN  IF ~Has(line, 4) THEN [rs EXCEPT !.err = ReadErr("LLineTooShort", <<>>)]
        ELSE IF Get(line, 1) \notin DOMAIN rs.node_name_to_node
        THEN [rs EXCEPT !.err = ReadErr("UnknownNodeName", Get(line, 1))]
        ELSE IF Sign(2) \notin {<<"+">>, <<"-">>}
        THEN [rs EXCEPT !.err = ReadErr("UnknownGfaNodeSign", Sign(2))]
        ELSE IF Get(line, 3) \notin DOMAIN rs.node_name_to_node
        THEN [rs EXCEPT !.err = ReadErr("UnknownNodeName", Get(line, 3))]
        ELSE IF Sign(4) \notin {<<"+">>, <<"-">>}
        THEN [rs EXCEPT !.err = ReadErr("UnknownGfaNodeSign", Sign(4))]
        ELSE [rs EXCEPT !.edges =
                 Push(@, [from |-> rs.node_name_to_node[Get(line, 1)],
                          from_forward |-> Sign(2) = <<"+">>,
                          to |-> rs.node_name_to_node[Get(line, 3)],
                          to_forward |-> Sign(4) = <<"+">>,
                          data |-> [overlap |-> overlap]])]

(* Lines 85-120: an L line. *)
ReadLLine(rs, line) ==
    LET Sign(k) == Get(line, k)
        overlap_str == IF Has(line, 5) THEN Get(line, 5) ELSE <<"0", "M">>
        parsed == ParseU16(TrimEndMatches(overlap_str, "M"))
        overlap == IF parsed = None THEN 0 ELSE parsed
    IN  IF ~Has(line, 1) THEN [rs EXCEPT !.err = ReadErr("LLineTooShort", <<>>)]
        ELSE IF Get(line, 1) \notin DOMAIN rs.node_name_to_node
        THEN [rs EXCEPT !.err = ReadErr("UnknownNodeName", Get(line, 1))]
        ELSE IF ~Has(line, 2)
        THEN [rs EXCEPT !.err = ReadErr("LLineTooShort", <<>>)]
        ELSE IF Sign(2) \notin {<<"+">>, <<"-">>}
        THEN [rs EXCEPT !.err = ReadErr("UnknownGfaNodeSign", Sign(2))]
        ELSE IF ~Has(line, 3)
        THEN [rs EXCEPT !.err = ReadErr("LLineTooShort", <<>>)]
        ELSE IF Get(line, 3) \notin DOMAIN rs.node_name_to_node
        THEN [rs EXCEPT !.err = ReadErr("UnknownNodeName", Get(line, 3))]
        ELSE IF ~Has(line, 4)
        THEN [rs EXCEPT !.err = ReadErr("LLineTooShort", <<>>)]
        ELSE IF Sign(4) \notin {<<"+">>, <<"-">>}
        THEN [rs EXCEPT !.err = ReadErr("UnknownGfaNodeSign", Sign(4))]
        ELSE [rs EXCEPT !.edges =
                 Push(@, [from |-> rs.node_name_to_node[Get(line, 1)],
                          from_forward |-> Sign(2) = <<"+">>,
                          to |-> rs.node_name_to_node[Get(line, 3)],
                          to_forward |-> Sign(4) = <<"+">>,
                          data |-> [overlap |-> overlap]])]

(* The reader with the header allowed until the first S or L line. *)
ReadLine_ResetOnRecord(rs, raw) ==
    LET line == Split(Trim(raw), TAB)
        after ==
            IF line[1] = <<"H">>
            THEN IF rs.is_header_allowed
                 THEN IF ~Has(line, 1)
                         \/ Get(line, 1) # <<"V", "N", ":", "Z", ":", "1", ".", "0">>
                      THEN [rs EXCEPT !.warnings = @ + 1]
                      ELSE rs
                 ELSE [rs EXCEPT !.err =
                          ReadErr("WronglyPositionedHeader", <<>>)]
            ELSE IF line[1] = <<"S">>
            THEN IF ~Has(line, 1)
                 THEN [rs EXCEPT !.err =
                          ReadErr("MissingSequenceNameInSLine", <<>>)]
                 ELSE [rs EXCEPT
                          !.nodes = Push(@, [name |-> Get(line, 1),
                                             sequence |->
                                                 IF Has(line, 2)
                                                 THEN Get(line, 2) ELSE <<>>]),
                          !.node_name_to_node =
                              MapInsert(@, Get(line, 1), VecLen(rs.nodes))]
            ELSE IF line[1] = <<"L">>
            THEN ReadLLine(rs, line)
            ELSE [rs EXCEPT !.warnings = @ + 1]
    IN  IF after.err # ReadOk \/ line[1] \notin {<<"S">>, <<"L">>} THEN after
        ELSE [after EXCEPT !.is_header_allowed = FALSE]

(* Lines 58-127: one line of the input. *)
ReadLine(rs, raw) ==
    LET line == Split(Trim(raw), TAB)
        after ==
            IF line[1] = <<"H">>
            THEN IF rs.is_header_allowed
                 THEN IF ~Has(line, 1)
                         \/ Get(line, 1) # <<"V", "N", ":", "Z", ":", "1", ".", "0">>
                      THEN [rs EXCEPT !.warnings = @ + 1]
                      ELSE rs
                 ELSE [rs EXCEPT !.err =
                          ReadErr("WronglyPositionedHeader", <<>>)]
            ELSE IF line[1] = <<"S">>
            THEN IF ~Has(line, 1)
                 THEN [rs EXCEPT !.err =
                          ReadErr("MissingSequenceNameInSLine", <<>>)]
                 ELSE [rs EXCEPT
                          !.nodes = Push(@, [name |-> Get(line, 1),
                                             sequence |->
                                                 IF Has(line, 2)
                                                 THEN Get(line, 2) ELSE <<>>]),
                          !.node_name_to_node =
                              MapInsert(@, Get(line, 1), VecLen(rs.nodes))]
            ELSE IF line[1] = <<"L">>
            THEN ReadLLine(rs, line)
            ELSE [rs EXCEPT !.warnings = @ + 1]
    IN  IF after.err # ReadOk THEN after
        ELSE [after EXCEPT !.is_header_allowed = FALSE]

(* Lines 57-128: the loop over the lines, from line k. *)
RECURSIVE ReadLines(_, _, _)
ReadLines(rs, lines, k) ==
    IF k > Len(lines) \/ rs.err # ReadOk THEN rs
    ELSE ReadLines(ReadLine(rs, lines[k]), lines, k + 1)

(* Lines 48-131: the graph of a text, or the error that ended the read. *)
read_gfa1(chars, chk) ==
    LET rs == ReadLines(ReadStart, Lines(chars), 1)
    IN  IF rs.err # ReadOk
        THEN [err |-> rs.err, warnings |-> rs.warnings, graph |-> Idle]
        ELSE [err |-> ReadOk, warnings |-> rs.warnings,
              graph |-> new(rs.nodes, rs.edges, chk)]

SignOf(d) == IF is_forward(d) THEN "+" ELSE "-"

(* The writer with the sign of the to side negated. *)
LLine_NegatedTo(gr, e) ==
    LET edge_data == edge(gr, e)
        from_node_name == node_data(gr, into_bidirected(edge_data.from)).name
        to_node_name == node_data(gr, into_bidirected(edge_data.to)).name
    IN  <<"L", TAB>> \o from_node_name \o <<TAB, SignOf(edge_data.from), TAB>>
        \o to_node_name \o <<TAB, SignOf(invert(edge_data.to)), TAB>>
        \o Decimal(edge_data.data.overlap) \o <<"M", LF>>

(* Lines 149-174: the L line of an edge. *)
LLine(gr, e) ==
    LET edge_data == edge(gr, e)
        from_node_name == node_data(gr, into_bidirected(edge_data.from)).name
        to_node_name == node_data(gr, into_bidirected(edge_data.to)).name
    IN  <<"L", TAB>> \o from_node_name \o <<TAB, SignOf(edge_data.from), TAB>>
        \o to_node_name \o <<TAB, SignOf(edge_data.to), TAB>>
        \o Decimal(edge_data.data.overlap) \o <<"M", LF>>

(* Lines 143-146: the S line of a node. *)
SLine(gr, node) ==
    <<"S", TAB>> \o node_data(gr, node).name \o <<TAB>>
    \o node_data(gr, node).sequence \o <<LF>>

RECURSIVE WriteNodes(_, _)
WriteNodes(gr, k) ==
    IF k > Len(iter_nodes(gr)) THEN <<>>
    ELSE SLine(gr, iter_nodes(gr)[k]) \o WriteNodes(gr, k + 1)

RECURSIVE WriteEdges(_, _)
WriteEdges(gr, k) ==
    IF k > Len(iter_edges(gr)) THEN <<>>
    ELSE LLine(gr, iter_edges(gr)[k]) \o WriteEdges(gr, k + 1)

(* Lines 133-177. *)
write_gfa1(gr) ==
    <<"H", TAB, "V", "N", ":", "Z", ":", "1", ".", "0", LF>>
    \o WriteNodes(gr, 1) \o WriteEdges(gr, 1)

----------------------------------------------------------------------------
(* Inputs: node payloads and edges whose from and to name existing nodes. *)

EdgesOver(n, payloads) ==
    [from : 0..(n - 1), from_forward : BOOLEAN,
     to : 0..(n - 1), to_forward : BOOLEAN, data : payloads]

EdgeLists(n, payloads, maxLen) ==
    UNION {Vectors(EdgesOver(n, payloads), m) : m \in 0..maxLen}

NodeLists(payloads, maxLen) ==
    UNION {Vectors(payloads, n) : n \in 0..maxLen}

(* The same, every position with its own payload. *)
TaggedNodes(n) == [i \in 0..(n - 1) |-> NodePayload(i)]

TaggedEdges(ends) ==
    [i \in DOMAIN ends |->
        [from |-> ends[i].from, from_forward |-> ends[i].from_forward,
         to |-> ends[i].to, to_forward |-> ends[i].to_forward,
         data |-> EdgePayload(i)]]

TaggedEdgeLists(n, maxLen) ==
    {TaggedEdges(ends) : ends \in EdgeLists(n, {0}, maxLen)}

----------------------------------------------------------------------------
(* The construction specification: new, pass by pass. *)

Init ==
    /\ nodes \in {TaggedNodes(n) : n \in 0..MaxNodes}
    /\ edges \in TaggedEdgeLists(VecLen(nodes), MaxEdges)
    /\ checked \in BOOLEAN
    /\ g = Allocate(nodes)
    /\ other = Idle
    /\ text = Idle
    /\ result = Idle
    /\ stage = "new"

Count ==
    /\ stage = "new" /\ g.status = "count" /\ g.i < VecLen(edges)
    /\ g' = CountEdge(g, edges[g.i], checked)
    /\ UNCHANGED <<nodes, edges, checked, other, text, result, stage>>

Prefix ==
    /\ stage = "new" /\ g.status = "count" /\ g.i = VecLen(edges)
    /\ g' = PrefixSum(g, checked)
    /\ UNCHANGED <<nodes, edges, checked, other, text, result, stage>>

Place ==
    /\ stage = "new" /\ g.status = "place" /\ g.i < VecLen(edges)
    /\ g' = PlaceEdge(g, g.i, edges[g.i], checked)
    /\ UNCHANGED <<nodes, edges, checked, other, text, result, stage>>

Finish ==
    /\ stage = "new" /\ g.status = "place" /\ g.i = VecLen(edges)
    /\ g' = Return(g)
    /\ UNCHANGED <<nodes, edges, checked, other, text, result, stage>>

(* A caller reads the finished graph through its accessors. *)
Query ==
    /\ stage = "new" /\ g.status = "done"
    /\ result' = Observe(g)
    /\ stage' = "observed"
    /\ UNCHANGED <<nodes, edges, checked, g, other, text>>

Next == Count \/ Prefix \/ Place \/ Finish \/ Query

Spec == Init /\ [][Next]_vars

----------------------------------------------------------------------------
(* The same construction on inputs at the edge of the index type: one     *)
(* node with WideEdges - 1 or WideEdges copies of a self loop, or          *)
(* WideNodes nodes with one self loop on the last of them.                 *)

WideShapes ==
    {<<1, WideEdges - 1>>, <<1, WideEdges>>, <<WideNodes, 1>>}

InitWide ==
    /\ \E shape \in WideShapes, e \in EdgesOver(1, {0}) :
          /\ nodes = TaggedNodes(shape[1])
          /\ edges = TaggedEdges(
                [i \in 0..(shape[2] - 1) |->
                    [e EXCEPT !.from = shape[1] - 1, !.to = shape[1] - 1]])
    /\ checked \in BOOLEAN
    /\ g = Allocate(nodes)
    /\ other = Idle
    /\ text = Idle
    /\ result = Idle
    /\ stage = "new"

SpecWide == InitWide /\ [][Next]_vars

----------------------------------------------------------------------------
(* The comparison specification: two graphs are built from two inputs and *)
(* compared. Payloads that can be equal or differ are drawn from sets.    *)

CmpMaxSize == 3

CmpNodePayloads == {"x", "y"}

CmpEdgePayloads == {"p", "q"}

(* The inputs with at most `size` nodes and edges together. *)
CmpInputs(size) ==
    UNION {[nodes : {ns},
            edges : EdgeLists(VecLen(ns), CmpEdgePayloads, size - VecLen(ns))] :
           ns \in NodeLists(CmpNodePayloads, size)}

InitCompare ==
    /\ \E a \in CmpInputs(CmpMaxSize) : nodes = a.nodes /\ edges = a.edges
    /\ other \in CmpInputs(CmpMaxSize)
    /\ checked \in BOOLEAN
    /\ g = Idle
    /\ text = Idle
    /\ result = Idle
    /\ stage = "inputs"

Compare ==
    /\ stage = "inputs"
    /\ g' = new(nodes, edges, checked)
    /\ result' = compare(g', new(other.nodes, other.edges, checked))
    /\ stage' = "compared"
    /\ UNCHANGED <<nodes, edges, checked, other, text>>

SpecCompare == InitCompare /\ [][Compare]_vars

----------------------------------------------------------------------------
(* The text specification: a graph with GFA payloads is built, written,   *)
(* read back and compared with what was written.                          *)

GfaMaxNodes == 2

GfaMaxEdges == 1

GfaNames == {<<>>, <<"a">>, <<"b">>, <<"a", " ">>}

GfaSequences == {<<>>, <<"C">>, <<"C", TAB>>}

GfaOverlaps == {0, U16Max}

GfaNodePayloads == [name : GfaNames, sequence : GfaSequences]

GfaEdgePayloads == [overlap : GfaOverlaps]

InitGfa ==
    /\ nodes \in NodeLists(GfaNodePayloads, GfaMaxNodes)
    /\ edges \in EdgeLists(VecLen(nodes), GfaEdgePayloads, GfaMaxEdges)
    /\ checked \in BOOLEAN
    /\ g = Idle
    /\ other = Idle
    /\ text = Idle
    /\ result = Idle
    /\ stage = "inputs"

Build ==
    /\ stage = "inputs"
    /\ g' = new(nodes, edges, checked)
    /\ stage' = "built"
    /\ UNCHANGED <<nodes, edges, checked, other, text, result>>

Write ==
    /\ stage = "built" /\ g.status = "done"
    /\ text' = write_gfa1(g)
    /\ stage' = "written"
    /\ UNCHANGED <<nodes, edges, checked, g, other, result>>

Read ==
    /\ stage = "written"
    /\ other' = read_gfa1(text, checked)
    /\ stage' = "read"
    /\ UNCHANGED <<nodes, edges, checked, g, text, result>>

CompareBack ==
    /\ stage = "read" /\ other.err = ReadOk
    /\ result' = compare(g, other.graph)
    /\ stage' = "roundtrip"
    /\ UNCHANGED <<nodes, edges, checked, g, other, text>>

NextGfa == Build \/ Write \/ Read \/ CompareBack

SpecGfa == InitGfa /\ [][NextGfa]_vars

----------------------------------------------------------------------------
(* The index specification: the operations of DirectedNodeIndex applied   *)
(* to every value of the index type.                                      *)

DirectedNodeIndices == 0..MaxIndex

InitIndex ==
    /\ other \in [directed : DirectedNodeIndices]
    /\ checked \in BOOLEAN
    /\ nodes = Idle
    /\ edges = Idle
    /\ g = Idle
    /\ text = Idle
    /\ result = Idle
    /\ stage = "index"

Invert ==
    /\ stage = "index"
    /\ result' =
          LET d == other.directed
          IN  [invert |-> invert(d),
               twice |-> invert(invert(d)),
               into_bidirected |-> into_bidirected(d),
               inverse_into_bidirected |-> into_bidirected(invert(d)),
               is_forward |-> is_forward(d),
               inverse_is_forward |-> is_forward(invert(d)),
               rebuilt |-> from_bidirected(into_bidirected(d), is_forward(d)),
               overflow |-> ~Fits(into_bidirected(d) * 2 + 1)]
    /\ stage' = "inverted"
    /\ UNCHANGED <<nodes, edges, checked, g, other, text>>

SpecIndex == InitIndex /\ [][Invert]_vars

----------------------------------------------------------------------------
(* The reader specification: read_gfa1 applied to texts of a few lines,   *)
(* well formed and not.                                                   *)

MaxLines == 3

(* The fields of a line, joined by tabs. *)
RECURSIVE JoinFields(_)
JoinFields(fields) ==
    IF Len(fields) = 1 THEN fields[1]
    ELSE fields[1] \o <<TAB>> \o JoinFields(Tail(fields))

LinePool ==
    { JoinFields(<< <<"H">>, <<"V", "N", ":", "Z", ":", "1", ".", "0">> >>),
      JoinFields(<< <<"H">>, <<"V", "N", ":", "Z", ":", "2", ".", "0">> >>),
      JoinFields(<< <<"S">>, <<"a">>, <<"C">> >>),
      JoinFields(<< <<"S">>, <<"a">>, <<"G">> >>),
      JoinFields(<< <<"S">>, <<"b">> >>),
      JoinFields(<< <<"S">> >>),
      JoinFields(<< <<"L">>, <<"a">>, <<"+">>, <<"b">>, <<"-">>, <<"5", "M">> >>),
      JoinFields(<< <<"L">>, <<"a">>, <<"-">>, <<"a">>, <<"+">> >>),
      JoinFields(<< <<"L">>, <<"z">>, <<"+">>, <<"a">>, <<"+">> >>),
      JoinFields(<< <<"L">>, <<"a">>, <<"+">>, <<"z">> >>),
      JoinFields(<< <<"L">>, <<"a">>, <<"?">>, <<"z">>, <<"+">> >>),
      JoinFields(<< <<"L">>, <<"a">> >>),
      JoinFields(<< <<"#">>, <<"a">> >>),
      <<>> }

RECURSIVE JoinLines(_)
JoinLines(lines) ==
    IF lines = <<>> THEN <<>>
    ELSE Head(lines) \o <<LF>> \o JoinLines(Tail(lines))

Texts(maxLen) ==
    UNION {{JoinLines(lines) : lines \in [1..n -> LinePool]} : n \in 0..maxLen}

InitRead ==
    /\ text \in Texts(MaxLines)
    /\ checked \in BOOLEAN
    /\ nodes = Idle
    /\ edges = Idle
    /\ g = Idle
    /\ other = Idle
    /\ result = Idle
    /\ stage = "text"

ReadText ==
    /\ stage = "text"
    /\ other' = read_gfa1(text, checked)
    /\ stage' = "parsed"
    /\ UNCHANGED <<nodes, edges, checked, g, text, result>>

SpecRead == InitRead /\ [][ReadText]_vars

----------------------------------------------------------------------------
(* What the input says, for the claims about the constructed graph. *)

Observed == stage = "observed"

FromOf(i) == from_bidirected(edges[i].from, edges[i].from_forward)

ToOf(i) == from_bidirected(edges[i].to, edges[i].to_forward)

DirectedNodes == 0..(2 * VecLen(nodes) - 1)

SameSignLoop(i) ==
    edges[i].from = edges[i].to /\ edges[i].from_forward = edges[i].to_forward

OppositeSignLoop(i) ==
    edges[i].from = edges[i].to /\ edges[i].from_forward # edges[i].to_forward

Parallel(i, j) ==
    i # j /\ FromOf(i) = FromOf(j) /\ ToOf(i) = ToOf(j)

Occurrences(seq, x) == Cardinality({k \in 1..Len(seq) : seq[k] = x})

(* The directed edges of the input that leave d for t. *)
InputArcs(d, t) ==
    Cardinality({i \in DOMAIN edges : FromOf(i) = d /\ ToOf(i) = t})
    + Cardinality({i \in DOMAIN edges :
                      invert(ToOf(i)) = d /\ invert(FromOf(i)) = t})

(* The directed edges of the input that leave a directed node below d. *)
InputArcsBelow(d) ==
    Cardinality({i \in DOMAIN edges : FromOf(i) < d})
    + Cardinality({i \in DOMAIN edges : invert(ToOf(i)) < d})

----------------------------------------------------------------------------
(* C1: the graph new returns shows its input through the accessors: the   *)
(* node and edge counts are the input lengths, node_data(i) is the i-th   *)
(* node payload, and edge(i) has the i-th edge's payload and the directed *)
(* endpoints from_bidirected(from, from_forward) and                      *)
(* from_bidirected(to, to_forward), self loops and parallel edges         *)
(* included.                                                              *)
C1_ConstructionPreservesInput ==
    Observed =>
        /\ result.node_count = VecLen(nodes)
        /\ result.edge_count = VecLen(edges)
        /\ DOMAIN result.node_data = DOMAIN nodes
        /\ \A i \in DOMAIN nodes : result.node_data[i] = nodes[i]
        /\ DOMAIN result.edge = DOMAIN edges
        /\ \A i \in DOMAIN edges :
              /\ result.edge[i].data = edges[i].data
              /\ result.edge[i].from = FromOf(i)
              /\ result.edge[i].to = ToOf(i)

(* A graph with two parallel self loops is observed. *)
C1_Witness ==
    /\ Observed
    /\ VecLen(nodes) = 2
    /\ \E i, j \in DOMAIN edges : Parallel(i, j) /\ OppositeSignLoop(i)

C3_SuccessorsAreInputArcs ==
    Observed =>
        \A d \in DirectedNodes :
            LET out == result.outgoing[d]
            IN  /\ Len(out) = result.node_array[d + 1] - result.node_array[d]
                /\ \A k \in 1..Len(out) :
                      /\ out[k].from = d
                      /\ out[k].index = result.node_array[d] + k - 1
                      /\ out[k].to \in DirectedNodes
                /\ \A t \in DirectedNodes :
                      Cardinality({k \in 1..Len(out) : out[k].to = t})
                          = InputArcs(d, t)

(* A directed node with one successor by an edge's forward direction and *)
(* one by another edge's reverse direction is observed.                  *)
C3_Witness ==
    /\ Observed
    /\ \E d \in DirectedNodes :
          /\ Len(result.outgoing[d]) = 2
          /\ \E i, j \in DOMAIN edges :
                i # j /\ FromOf(i) = d /\ invert(ToOf(j)) = d

(* C4: iter_incident_edges(n) yields each edge with from = n or to = n   *)
(* once, and no other edge.                                              *)
C4_IncidentOnce ==
    Observed =>
        \A n \in DOMAIN nodes :
            /\ \A k \in 1..Len(result.incident[n]) :
                  result.incident[n][k] \in DOMAIN edges
            /\ \A e \in DOMAIN edges :
                  Occurrences(result.incident[n], e) =
                      IF edges[e].from = n \/ edges[e].to = n THEN 1 ELSE 0

(* A node with a self loop and an edge to another node is observed. *)
C4_Witness ==
    /\ Observed
    /\ \E i, j \in DOMAIN edges :
          /\ edges[i].from = edges[i].to
          /\ edges[j].from = edges[i].from
          /\ edges[j].to # edges[j].from

(* C5: the two slots of an edge are distinct, each key names the other   *)
(* as its inverse, the forward slot's back-reference is the edge and the *)
(* reverse slot's is absent.                                             *)
C5_OneBackReference ==
    Observed =>
        \A e \in DOMAIN edges :
            LET v == result.edge[e]
            IN  /\ v.forward # v.reverse
                /\ result.keys[v.forward].inverse = v.reverse
                /\ result.keys[v.reverse].inverse = v.forward
                /\ result.keys[v.forward].data_index = e
                /\ result.keys[v.reverse].data_index = None

(* A graph with a self loop whose two slots lie in one range is observed. *)
C5_Witness ==
    /\ Observed
    /\ \E e \in DOMAIN edges :
          /\ OppositeSignLoop(e)
          /\ result.keys[result.edge[e].forward].data_index = e

(* C6: the offset table has 2 * node_count + 1 entries, starts at 0, does *)
(* not decrease and ends at 2 * edge_count; entry d is the number of the  *)
(* input's directed edges that leave a directed node below d.             *)
C6_OffsetsWellFormed ==
    Observed =>
        LET na == result.node_array
            last == 2 * VecLen(nodes)
        IN  /\ DOMAIN na = 0..last
            /\ na[0] = 0
            /\ \A d \in 0..(last - 1) : na[d] <= na[d + 1]
            /\ na[last] = 2 * VecLen(edges)
            /\ \A d \in 0..last : na[d] = InputArcsBelow(d)

(* A graph whose offsets rise twice is observed. *)
C6_Witness ==
    /\ Observed
    /\ VecLen(edges) = 2
    /\ \E d \in DirectedNodes :
          /\ 0 < result.node_array[d]
          /\ result.node_array[d] < result.node_array[d + 1]

(* C7: directed_edge_data(p) never takes the fatal branch: its edge is    *)
(* the one edge with p as a slot, is_forward says whether p is the        *)
(* forward slot, data is that edge's payload, and                         *)
(* directed_edge_into_bidirected(p) is the same edge.                     *)
C7_PayloadResolution ==
    Observed =>
        /\ DOMAIN result.directed = 0..(2 * VecLen(edges) - 1)
        /\ \A p \in DOMAIN result.directed :
              LET v == result.directed[p]
                  owners == {e \in DOMAIN edges :
                                p \in {result.edge[e].forward,
                                       result.edge[e].reverse}}
              IN  /\ ~v.panic
                  /\ owners = {v.edge}
                  /\ v.is_forward <=> (p = result.edge[v.edge].forward)
                  /\ v.data = edges[v.edge].data
                  /\ result.into_bidirected[p] =
                         [panic |-> FALSE, edge |-> v.edge]

(* A reverse slot resolved through its inverse is observed. *)
C7_Witness ==
    /\ Observed
    /\ \E p \in DOMAIN result.directed :
          /\ ~result.directed[p].is_forward
          /\ result.directed[p].edge = 1

(* C8: for every input whose edges name existing nodes, new ends without *)
(* a panic (no failed assertion, no access out of bounds) and without an  *)
(* index computation that leaves the index type.                          *)
C8_NeverFails == g.status # "panic" /\ ~g.wrapped

(* What the two inputs of the comparison say. *)
Compared == stage = "compared"

EndsOf(es, j) ==
    <<from_bidirected(es[j].from, es[j].from_forward),
      from_bidirected(es[j].to, es[j].to_forward)>>

NodeDiffers(i) == nodes[i] # other.nodes[i]

EdgeDiffers(j) ==
    edges[j].data # other.edges[j].data \/ EndsOf(edges, j) # EndsOf(other.edges, j)

Least(S) == CHOOSE x \in S : \A y \in S : x <= y

(* C9: compare answers with the first failing check: the node counts,    *)
(* the edge counts, the least node whose payloads differ, then the least *)
(* edge whose payload or endpoints differ, named by its payload if that  *)
(* differs and by its endpoints otherwise; Ok when nothing differs.      *)
C9_FirstFailingCheck ==
    Compared =>
        result =
            IF VecLen(nodes) # VecLen(other.nodes)
            THEN Err("NodeCountMismatch", None)
            ELSE IF VecLen(edges) # VecLen(other.edges)
            THEN Err("EdgeCountMismatch", None)
            ELSE IF \E i \in DOMAIN nodes : NodeDiffers(i)
            THEN Err("NodeDataMismatch",
                     Least({i \in DOMAIN nodes : NodeDiffers(i)}))
            ELSE IF \E j \in DOMAIN edges : EdgeDiffers(j)
            THEN LET j == Least({k \in DOMAIN edges : EdgeDiffers(k)})
                 IN  IF edges[j].data # other.edges[j].data
                     THEN Err("EdgeDataMismatch", j)
                     ELSE Err("EdgeEndpointMismatch", j)
            ELSE Ok

(* Two graphs whose first edges agree and whose second edges differ in   *)
(* payload and endpoints have been compared.                             *)
C9_Witness ==
    /\ Compared
    /\ result = Err("EdgeDataMismatch", 1)
    /\ EndsOf(edges, 1) # EndsOf(other.edges, 1)

(* Names and sequences that the text format carries unchanged. *)
NoWhitespace(chars) == \A k \in 1..Len(chars) : chars[k] \notin Whitespace

TextSafe ==
    /\ \A i \in DOMAIN nodes :
          /\ nodes[i].name # <<>>
          /\ NoWhitespace(nodes[i].name)
          /\ NoWhitespace(nodes[i].sequence)
    /\ \A i, j \in DOMAIN nodes : i # j => nodes[i].name # nodes[j].name

RoundTripOk ==
    /\ stage = "read" => other.err = ReadOk
    /\ stage = "roundtrip" => result = Ok

(* C10, as claimed: for any constructed graph with GFA payloads, reading *)
(* what write_gfa1 wrote succeeds and gives a graph that compare finds   *)
(* equal to the written one.                                             *)
C10_AsClaimed == RoundTripOk

(* C10, amended: the same for any constructed graph whose node names are *)
(* non-empty and pairwise distinct and whose node names and sequences    *)
(* hold no whitespace (no tab, line feed, carriage return or space).     *)
C10_RoundTrip == TextSafe => RoundTripOk

(* The round trip of a graph with two named nodes and an edge between    *)
(* them, from a reverse side and with the largest overlap, is compared.  *)
C10_Witness ==
    /\ stage = "roundtrip"
    /\ TextSafe
    /\ result = Ok
    /\ VecLen(nodes) = 2
    /\ \E e \in DOMAIN edges :
          /\ edges[e].from # edges[e].to
          /\ ~edges[e].from_forward
          /\ edges[e].data.overlap = U16Max

(* C11: for every directed node index d, invert(invert(d)) = d,          *)
(* invert(d) # d, invert(d) lies on the same bidirected node and on the  *)
(* other side of it, and from_bidirected(into_bidirected(d),             *)
(* is_forward(d)) = d, with no step leaving the index type.              *)
C11_InvertIsInvolution ==
    stage = "inverted" =>
        /\ result.invert \in DirectedNodeIndices
        /\ result.twice = other.directed
        /\ result.invert # other.directed
        /\ result.inverse_into_bidirected = result.into_bidirected
        /\ result.inverse_is_forward = ~result.is_forward
        /\ result.rebuilt = other.directed
        /\ ~result.overflow

(* The largest index, a reverse side, has been inverted. *)
C11_Witness ==
    /\ stage = "inverted"
    /\ other.directed = MaxIndex
    /\ ~result.is_forward
    /\ result.invert = MaxIndex - 1

(* The index with its low bit flipped. *)
LowBitFlip(p) == IF p % 2 = 0 THEN p + 1 ELSE p - 1

(* C12, as claimed: in every constructed graph the inverse recorded in   *)
(* the key record of a directed edge p is p with its low bit flipped.    *)
C12_AsClaimed ==
    Observed =>
        \A p \in DOMAIN result.keys : result.keys[p].inverse = LowBitFlip(p)

(* C12, amended: in every constructed graph the inverse recorded in the  *)
(* key record of a directed edge p is another directed edge q, whose own *)
(* record names p; p and q are the forward and the reverse slot of one   *)
(* bidirected edge, and resolve to it with opposite is_forward.          *)
C12_InverseIsRecorded ==
    Observed =>
        \A p \in DOMAIN result.keys :
            LET q == result.keys[p].inverse
            IN  /\ q \in DOMAIN result.keys
                /\ q # p
                /\ result.keys[q].inverse = p
                /\ ~result.directed[p].panic
                /\ ~result.directed[q].panic
                /\ result.directed[q].edge = result.directed[p].edge
                /\ result.directed[q].is_forward = ~result.directed[p].is_forward
                /\ LET v == result.edge[result.directed[p].edge]
                   IN  {p, q} = {v.forward, v.reverse}

(* A graph is observed in which the inverse of a directed edge is not    *)
(* its neighbour by the low bit.                                         *)
C12_Witness ==
    /\ Observed
    /\ \E p \in DOMAIN result.keys :
          /\ result.keys[p].inverse # LowBitFlip(p)
          /\ result.keys[result.keys[p].inverse].inverse = p

(* The reader's input, line by line. *)
Parsed == stage = "parsed"

InputLines == Lines(text)

FieldsOf(k) == Split(Trim(InputLines[k]), TAB)

KindOf(k) == FieldsOf(k)[1]

(* What read_gfa1 makes of the first k lines alone. *)
ReadPrefix(k) == read_gfa1(JoinLines(SubSeq(InputLines, 1, k)), checked)

VersionTag == <<"V", "N", ":", "Z", ":", "1", ".", "0">>

(* C13: an H line that is the first line is accepted, with a warning if  *)
(* its version tag is not the expected one; an H line at a later         *)
(* position, before which no line failed, makes read_gfa1 return         *)
(* WronglyPositionedHeader; nothing else does.                           *)
C13_HeaderOnlyFirst ==
    Parsed =>
        /\ \A k \in 2..Len(InputLines) :
              KindOf(k) = <<"H">> /\ ReadPrefix(k - 1).err = ReadOk
                  => other = [err |-> ReadErr("WronglyPositionedHeader", <<>>),
                              warnings |-> ReadPrefix(k - 1).warnings,
                              graph |-> Idle]
        /\ Len(InputLines) >= 1 /\ KindOf(1) = <<"H">>
              => /\ ReadPrefix(1).err = ReadOk
                 /\ ReadPrefix(1).warnings =
                       IF Len(FieldsOf(1)) >= 2 /\ FieldsOf(1)[2] = VersionTag
                       THEN 0 ELSE 1
        /\ other.err.kind = "WronglyPositionedHeader"
              => \E k \in 2..Len(InputLines) : KindOf(k) = <<"H">>

(* A header after an S line and an L line has been refused. *)
C13_Witness ==
    /\ Parsed
    /\ Len(InputLines) = 3
    /\ KindOf(1) = <<"S">>
    /\ KindOf(2) = <<"L">>
    /\ KindOf(3) = <<"H">>
    /\ other.err = ReadErr("WronglyPositionedHeader", <<>>)

(* The positions of the S lines before line k, and the names they define. *)
SLinesBefore(k) == {j \in 1..(k - 1) : KindOf(j) = <<"S">> /\ Len(FieldsOf(j)) >= 2}

DefinedBefore(k) == {FieldsOf(j)[2] : j \in SLinesBefore(k)}

(* The undefined names that line k has in its from and to fields. *)
UndefinedIn(k) ==
    {FieldsOf(k)[i] : i \in {i \in {2, 4} : i <= Len(FieldsOf(k))}}
        \ DefinedBefore(k)

(* Line k is an L line and no line before it fails. *)
FirstFailureCanBeL(k) == KindOf(k) = <<"L">> /\ ReadPrefix(k - 1).err = ReadOk

(* C14, as claimed: whenever the first failing line is an L line with an *)
(* undefined from or to name, read_gfa1 fails with UnknownNodeName       *)
(* carrying such a name and returns no graph.                            *)
C14_AsClaimed ==
    Parsed =>
        \A k \in 1..Len(InputLines) :
            FirstFailureCanBeL(k) /\ UndefinedIn(k) # {}
                => /\ other.err.kind = "UnknownNodeName"
                   /\ other.err.arg \in UndefinedIn(k)
                   /\ other.graph = Idle

(* C14, amended: whenever the first failing line is an L line whose from *)
(* name is undefined, or whose from name is defined, from sign is + or - *)
(* and to name is undefined, read_gfa1 fails with UnknownNodeName        *)
(* carrying that name and returns no graph.                              *)
C14_UnknownNodeName ==
    Parsed =>
        \A k \in 1..Len(InputLines) :
            LET f == FieldsOf(k)
                defined == DefinedBefore(k)
                Fails(name) ==
                    /\ other.err = ReadErr("UnknownNodeName", name)
                    /\ other.graph = Idle
            IN  FirstFailureCanBeL(k) =>
                    /\ Len(f) >= 2 /\ f[2] \notin defined => Fails(f[2])
                    /\ /\ Len(f) >= 4
                       /\ f[2] \in defined
                       /\ f[3] \in {<<"+">>, <<"-">>}
                       /\ f[4] \notin defined
                       => Fails(f[4])

(* An L line from a defined node to an undefined one has been refused. *)
C14_Witness ==
    /\ Parsed
    /\ \E k \in 2..Len(InputLines) :
          /\ FirstFailureCanBeL(k)
          /\ Len(FieldsOf(k)) >= 4
          /\ FieldsOf(k)[2] \in DefinedBefore(k)
          /\ FieldsOf(k)[4] \notin DefinedBefore(k)
          /\ other.err = ReadErr("UnknownNodeName", FieldsOf(k)[4])

(* The positions of the S and the L lines of the input. *)
SLines == {j \in 1..Len(InputLines) : KindOf(j) = <<"S">>}

LLines == {k \in 1..Len(InputLines) : KindOf(k) = <<"L">>}

(* The node of the S line at j and the edge of the L line at k: their    *)
(* ranks among the lines of their kind.                                  *)
NodeOfLine(j) == Cardinality({i \in SLines : i < j})

EdgeOfLine(k) == Cardinality({i \in LLines : i < k})

(* The last S line before line k that defines the name. *)
LastDefinition(name, k) ==
    LET defs == {j \in SLinesBefore(k) : FieldsOf(j)[2] = name}
    IN  CHOOSE j \in defs : \A i \in defs : i <= j

(* C15: in the graph of a text that read_gfa1 accepts, every S line is a *)
(* node of its own, in the order of the lines and with the line's name   *)
(* and sequence, also when names repeat, and every L line is an edge     *)
(* whose from and to are the nodes of the last S lines before it that    *)
(* have its from and to names.                                           *)
C15_LaterNameShadows ==
    Parsed /\ other.err = ReadOk =>
        LET gr == other.graph
        IN  /\ gr.status = "done"
            /\ node_count(gr) = Cardinality(SLines)
            /\ edge_count(gr) = Cardinality(LLines)
            /\ \A j \in SLines :
                  /\ node_data(gr, NodeOfLine(j)).name = FieldsOf(j)[2]
                  /\ node_data(gr, NodeOfLine(j)).sequence =
                        IF Len(FieldsOf(j)) >= 3 THEN FieldsOf(j)[3] ELSE <<>>
            /\ \A k \in LLines :
                  LET v == edge(gr, EdgeOfLine(k))
                      f == FieldsOf(k)
                  IN  /\ into_bidirected(v.from) =
                            NodeOfLine(LastDefinition(f[2], k))
                      /\ into_bidirected(v.to) =
                            NodeOfLine(LastDefinition(f[4], k))
                      /\ is_forward(v.from) = (f[3] = <<"+">>)
                      /\ is_forward(v.to) = (f[5] = <<"+">>)

(* A text with two S lines of one name and an L line after them has been *)
(* read: two nodes, and the edge on the later one.                       *)
C15_Witness ==
    /\ Parsed
    /\ other.err = ReadOk
    /\ \E k \in LLines :
          /\ Cardinality({j \in SLinesBefore(k) : FieldsOf(j)[2] = FieldsOf(k)[2]}) = 2
          /\ node_count(other.graph) = 2
          /\ into_bidirected(edge(other.graph, EdgeOfLine(k)).from) = 1

(* The bidirected edge that owns the k-th successor of d, and whether    *)
(* that successor is the edge's forward slot.                            *)
OwnerOf(d, k) == result.directed[result.outgoing[d][k].index].edge

IsForwardSlot(d, k) == result.directed[result.outgoing[d][k].index].is_forward

(* C16: in the order of iter_outgoing_edges(d) the owning edges do not   *)
(* increase, and of two successors owned by one edge the reverse slot    *)
(* comes first.                                                          *)
C16_SuccessorsInReverseInputOrder ==
    Observed =>
        \A d \in DirectedNodes :
            \A k, l \in 1..Len(result.outgoing[d]) :
                k < l =>
                    /\ OwnerOf(d, k) >= OwnerOf(d, l)
                    /\ OwnerOf(d, k) = OwnerOf(d, l)
                          => ~IsForwardSlot(d, k) /\ IsForwardSlot(d, l)

(* A directed node whose successors are both slots of a later edge and a *)
(* slot of an earlier one is observed.                                   *)
C16_Witness ==
    /\ Observed
    /\ \E d \in DirectedNodes :
          /\ Len(result.outgoing[d]) >= 3
          /\ OwnerOf(d, 1) = 1
          /\ OwnerOf(d, 2) = 1
          /\ ~IsForwardSlot(d, 1)
          /\ IsForwardSlot(d, 2)
          /\ OwnerOf(d, 3) = 0

(* The slots of the successor table. *)
DirectedEdges == 0..(2 * result.edge_count - 1)

(* C17: the inverse of a directed edge u -> v, as its key record names   *)
(* it, is yielded by iter_outgoing_edges(invert(v)) with destination     *)
(* invert(u); every slot of the successor table is the forward or the    *)
(* reverse slot of exactly one bidirected edge.                          *)
C17_SkewSymmetry ==
    Observed =>
        /\ \A u \in DirectedNodes :
              \A k \in 1..Len(result.outgoing[u]) :
                  LET p == result.outgoing[u][k]
                      q == result.keys[p.index].inverse
                      back == result.outgoing[invert(p.to)]
                  IN  \E m \in 1..Len(back) :
                          /\ back[m].index = q
                          /\ back[m].from = invert(p.to)
                          /\ back[m].to = invert(u)
        /\ DOMAIN result.keys = DirectedEdges
        /\ \A p \in DirectedEdges :
              Cardinality({e \in DOMAIN result.edge :
                              p \in {result.edge[e].forward,
                                     result.edge[e].reverse}}) = 1

(* A graph with an edge between two nodes, whose inverse leaves another  *)
(* directed node than the edge does, and a parallel edge is observed.    *)
C17_Witness ==
    /\ Observed
    /\ result.edge_count = 2
    /\ \E u \in DirectedNodes :
          /\ Len(result.outgoing[u]) = 2
          /\ LET p == result.outgoing[u][1]
             IN  /\ into_bidirected(p.to) # into_bidirected(u)
                 /\ result.outgoing[u][2].to = p.to
                 /\ result.outgoing[invert(p.to)][1].index
                       = result.keys[p.index].inverse

====
